---- MODULE Spec2Model ----
(***************************************************************************)
(* Model of the customer-data utilities:                                   *)
(*   lesson1/problem3/merge_customers.py  (merge of the Q1 and Q2 batches) *)
(*   lesson1/problem2/clean_data_1.py     (field normalizers and STATS)    *)
(***************************************************************************)
EXTENDS Integers, Sequences, FiniteSets, TLC

VARIABLES
    q1,          \* rows read from customers_q1.csv
    q2,          \* rows read from customers_q2.csv
    pc,          \* "start" | "done" | "aborted" : position of merge_customers
    written,     \* TRUE once merged_customers.csv has been written
    merged_df,   \* rows of the output file (source column dropped)
    conflicts,   \* the conflicts list: <<cid, col, q1 value, q2 value>>
    totals,      \* the purchase totals of the report
    STATS,       \* clean_data_1.STATS, the global counters
    calls,       \* the number of calls made so far of each field's normalizer
    prev,        \* STATS as it was before the last call
    call,        \* the last call: the function, its argument and what it returned
    arg          \* the phrase handed to text_to_number

vars == <<q1, q2, pc, written, merged_df, conflicts, totals, STATS, calls, prev, call, arg>>

(***************************************************************************)
(* Cells.  A cell of a data frame is NaN (an empty CSV field), a number or *)
(* a string.                                                               *)
(***************************************************************************)
NaN == [k |-> "nan", s |-> "", n |-> 0]
Num(x) == [k |-> "num", s |-> "", n |-> x]
Str(x) == [k |-> "str", s |-> x, n |-> 0]

notna(c) == c.k # "nan"

\* bounds of the merge inputs
MaxRows == 3

CustomerIds == {1, 2}

(***************************************************************************)
(* The dates the inputs use: what pd.to_datetime reads from each string    *)
(* (a day number), and what strftime("%Y-%m-%d") prints for a day number.  *)
(***************************************************************************)
DateStrings == {"2024-01-05", "2024/02/10"}
NaT == 0

to_datetime(c) ==
    IF c.k = "str" /\ c.s = "2024-01-05" THEN 5
    ELSE IF c.k = "str" /\ c.s = "2024/02/10" THEN 41
    ELSE NaT

strftime(d) == IF d = 5 THEN Str("2024-01-05") ELSE Str("2024-02-10")

(***************************************************************************)
(* Input rows.  A row of a CSV file has the columns customer_id, name,     *)
(* email, total_purchases and registration_date.  The rows the inputs are  *)
(* drawn from differ from a base row in at most one column.                *)
(***************************************************************************)
Row(cid, nm, em, tp, rd) ==
    [customer_id |-> cid, name |-> nm, email |-> em,
     total_purchases |-> tp, registration_date |-> rd]

NameCells == {NaN, Str("ann"), Str("bob")}
EmailCells == {Str("a@x.io"), Str("b@x.io")}
PurchaseCells == {NaN, Str("n/a"), Num(1)}
DateCells == {Str("unknown"), Str("2024-01-05"), Str("2024/02/10")}

InputRows ==
    UNION {
        {Row(cid, nm, Str("a@x.io"), Num(1), Str("2024-01-05")) : nm \in NameCells}
        \cup {Row(cid, Str("ann"), em, Num(1), Str("2024-01-05")) : em \in EmailCells}
        \cup {Row(cid, Str("ann"), Str("a@x.io"), tp, Str("2024-01-05")) : tp \in PurchaseCells}
        \cup {Row(cid, Str("ann"), Str("a@x.io"), Num(1), rd) : rd \in DateCells}
        : cid \in CustomerIds }

RECURSIVE SeqsOf(_, _)
SeqsOf(S, n) ==
    IF n = 0 THEN {<<>>}
    ELSE LET shorter == SeqsOf(S, n - 1)
         IN shorter \cup {Append(s, x) : s \in {t \in shorter : Len(t) = n - 1}, x \in S}

OtherColumns == {"name", "email"}

Cell(r, col) ==
    CASE col = "name" -> r.name
      [] col = "email" -> r.email
      [] col = "total_purchases" -> r.total_purchases
      [] col = "registration_date" -> r.registration_date

(***************************************************************************)
(* merge_customers                                                         *)
(***************************************************************************)
\* q["source"] = "Q1" / "Q2"
add_source(rows, src) ==
    [i \in 1..Len(rows) |->
        [customer_id |-> rows[i].customer_id, name |-> rows[i].name,
         email |-> rows[i].email, total_purchases |-> rows[i].total_purchases,
         registration_date |-> rows[i].registration_date, source |-> src]]

\* merged_df.drop(columns=["source"])
drop_source(rows) ==
    [i \in 1..Len(rows) |->
        Row(rows[i].customer_id, rows[i].name, rows[i].email,
            rows[i].total_purchases, rows[i].registration_date)]

\* DataFrame.drop_duplicates: the first of each set of identical rows stays
RECURSIVE drop_duplicates(_)
drop_duplicates(rows) ==
    IF rows = <<>> THEN <<>>
    ELSE LET front == drop_duplicates(SubSeq(rows, 1, Len(rows) - 1))
             last == rows[Len(rows)]
         IN IF \E i \in 1..Len(front) : front[i] = last THEN front
            ELSE Append(front, last)

\* combined = pd.concat([q1, q2]).drop_duplicates()
combine(a, b) == drop_duplicates(add_source(a, "Q1") \o add_source(b, "Q2"))

\* the keys of combined.groupby("customer_id"), ascending
RECURSIVE sorted_keys(_)
sorted_keys(S) ==
    IF S = {} THEN <<>>
    ELSE LET m == CHOOSE x \in S : \A y \in S : x <= y
         IN <<m>> \o sorted_keys(S \ {m})

group_keys(combined) ==
    sorted_keys({combined[i].customer_id : i \in 1..Len(combined)})

group_of(combined, cid) == SelectSeq(combined, LAMBDA r : r.customer_id = cid)

\* group[group["source"] == src].iloc[0] if src in group["source"].values else None
source_rows(group, src) == SelectSeq(group, LAMBDA r : r.source = src)

\* float(cell): a number, NaN for an empty cell, ValueError for other text
float_raises(c) == c.k = "str"

\* the sum left out: the Q2 value as it is
sum_purchases_q2_only(q1_row, q2_row) == q2_row.total_purchases

\* try: float(q1) + float(q2)   except: q2's raw value
sum_purchases(q1_row, q2_row) ==
    IF float_raises(q1_row.total_purchases) \/ float_raises(q2_row.total_purchases)
    THEN q2_row.total_purchases
    ELSE IF q1_row.total_purchases.k = "nan" \/ q2_row.total_purchases.k = "nan"
         THEN NaN
         ELSE Num(q1_row.total_purchases.n + q2_row.total_purchases.n)

\* Python's min(d1, d2): d2 only if d2 < d1, and no comparison with NaT is true
py_min(d1, d2) == IF d1 # NaT /\ d2 # NaT /\ d2 < d1 THEN d2 ELSE d1

\* try: min(d1, d2).strftime(...)   except: q2's raw value (NaT.strftime raises)
earliest_date(q1_row, q2_row) ==
    LET d1 == to_datetime(q1_row.registration_date)
        d2 == to_datetime(q2_row.registration_date)
    IN IF py_min(d1, d2) = NaT THEN q2_row.registration_date
       ELSE strftime(py_min(d1, d2))

\* the pd.notna tests left out
is_conflict_with_nulls(q1_row, q2_row, col) == Cell(q1_row, col) # Cell(q2_row, col)

\* the loop over group.columns that logs the other columns' conflicts
is_conflict(q1_row, q2_row, col) ==
    /\ notna(Cell(q1_row, col))
    /\ notna(Cell(q2_row, col))
    /\ Cell(q1_row, col) # Cell(q2_row, col)

ColumnOrder == <<"name", "email">>

log_conflicts(cid, q1_row, q2_row) ==
    LET hit(col) == is_conflict(q1_row, q2_row, col)
        entry(col) == <<cid, col, Cell(q1_row, col), Cell(q2_row, col)>>
    IN (IF hit(ColumnOrder[1]) THEN <<entry(ColumnOrder[1])>> ELSE <<>>)
       \o (IF hit(ColumnOrder[2]) THEN <<entry(ColumnOrder[2])>> ELSE <<>>)

\* one iteration of the loop over the groups:
\* raised = the uncaught TypeError of line 66 (q2_row is None inside the handler)
resolve_group(cid, group) ==
    IF Len(group) = 1
    THEN [raised |-> FALSE, row |-> group[1], logged |-> <<>>]
    ELSE LET g1 == source_rows(group, "Q1")
             g2 == source_rows(group, "Q2")
         IN IF g1 = <<>>
            THEN [raised |-> FALSE, row |-> g2[1], logged |-> <<>>]
            ELSE IF g2 = <<>>
            THEN [raised |-> TRUE, row |-> g1[1], logged |-> <<>>]
            ELSE [raised |-> FALSE,
                  row |-> [g2[1] EXCEPT
                              !.total_purchases = sum_purchases(g1[1], g2[1]),
                              !.registration_date = earliest_date(g1[1], g2[1])],
                  logged |-> log_conflicts(cid, g1[1], g2[1])]

\* the whole loop: resolved_rows and conflicts, or the exception
RECURSIVE resolve_all(_, _)
resolve_all(combined, keys) ==
    IF keys = <<>> THEN [raised |-> FALSE, rows |-> <<>>, logged |-> <<>>]
    ELSE LET front == resolve_all(combined, SubSeq(keys, 1, Len(keys) - 1))
             cid == keys[Len(keys)]
             one == resolve_group(cid, group_of(combined, cid))
         IN IF front.raised \/ one.raised
            THEN [raised |-> TRUE, rows |-> <<>>, logged |-> <<>>]
            ELSE [raised |-> FALSE, rows |-> Append(front.rows, one.row),
                  logged |-> front.logged \o one.logged]

\* Series.astype(float).sum(): NaN is skipped, text raises
RECURSIVE purchases_sum(_)
purchases_sum(rows) ==
    IF rows = <<>> THEN 0
    ELSE purchases_sum(Tail(rows))
         + (IF rows[1].total_purchases.k = "num" THEN rows[1].total_purchases.n ELSE 0)

has_text_purchases(rows) ==
    \E i \in 1..Len(rows) : rows[i].total_purchases.k = "str"

purchase_totals(combined, out) ==
    IF has_text_purchases(combined) \/ has_text_purchases(out)
    THEN [ok |-> FALSE, before |-> 0, after |-> 0]
    ELSE [ok |-> TRUE, before |-> purchases_sum(combined), after |-> purchases_sum(out)]

NoTotals == [ok |-> FALSE, before |-> 0, after |-> 0]


(***************************************************************************)
(* clean_data_1.py.  A Python string is a sequence of one-character        *)
(* strings; Spelling writes the words the inputs and the tables use.       *)
(***************************************************************************)
Spelling ==
    ("zero" :> <<"z", "e", "r", "o">>)
    @@ ("one" :> <<"o", "n", "e">>)
    @@ ("two" :> <<"t", "w", "o">>)
    @@ ("three" :> <<"t", "h", "r", "e", "e">>)
    @@ ("four" :> <<"f", "o", "u", "r">>)
    @@ ("five" :> <<"f", "i", "v", "e">>)
    @@ ("six" :> <<"s", "i", "x">>)
    @@ ("seven" :> <<"s", "e", "v", "e", "n">>)
    @@ ("eight" :> <<"e", "i", "g", "h", "t">>)
    @@ ("nine" :> <<"n", "i", "n", "e">>)
    @@ ("ten" :> <<"t", "e", "n">>)
    @@ ("eleven" :> <<"e", "l", "e", "v", "e", "n">>)
    @@ ("twelve" :> <<"t", "w", "e", "l", "v", "e">>)
    @@ ("thirteen" :> <<"t", "h", "i", "r", "t", "e", "e", "n">>)
    @@ ("fourteen" :> <<"f", "o", "u", "r", "t", "e", "e", "n">>)
    @@ ("fifteen" :> <<"f", "i", "f", "t", "e", "e", "n">>)
    @@ ("sixteen" :> <<"s", "i", "x", "t", "e", "e", "n">>)
    @@ ("seventeen" :> <<"s", "e", "v", "e", "n", "t", "e", "e", "n">>)
    @@ ("eighteen" :> <<"e", "i", "g", "h", "t", "e", "e", "n">>)
    @@ ("nineteen" :> <<"n", "i", "n", "e", "t", "e", "e", "n">>)
    @@ ("twenty" :> <<"t", "w", "e", "n", "t", "y">>)
    @@ ("thirty" :> <<"t", "h", "i", "r", "t", "y">>)
    @@ ("forty" :> <<"f", "o", "r", "t", "y">>)
    @@ ("fifty" :> <<"f", "i", "f", "t", "y">>)
    @@ ("sixty" :> <<"s", "i", "x", "t", "y">>)
    @@ ("seventy" :> <<"s", "e", "v", "e", "n", "t", "y">>)
    @@ ("eighty" :> <<"e", "i", "g", "h", "t", "y">>)
    @@ ("ninety" :> <<"n", "i", "n", "e", "t", "y">>)
    @@ ("hundred" :> <<"h", "u", "n", "d", "r", "e", "d">>)
    @@ ("thousand" :> <<"t", "h", "o", "u", "s", "a", "n", "d">>)
    @@ ("million" :> <<"m", "i", "l", "l", "i", "o", "n">>)
    @@ ("billion" :> <<"b", "i", "l", "l", "i", "o", "n">>)
    @@ ("and" :> <<"a", "n", "d">>)
    @@ ("dollars" :> <<"d", "o", "l", "l", "a", "r", "s">>)
    @@ ("dollar" :> <<"d", "o", "l", "l", "a", "r">>)
    @@ ("usd" :> <<"u", "s", "d">>)
    @@ ("aud" :> <<"a", "u", "d">>)
    @@ ("gbp" :> <<"g", "b", "p">>)
    @@ ("eur" :> <<"e", "u", "r">>)
    @@ ("approx" :> <<"a", "p", "p", "r", "o", "x">>)
    @@ ("xyz" :> <<"x", "y", "z">>)
    @@ ("unit" :> <<"u", "n", "i", "t">>)
    @@ ("years" :> <<"y", "e", "a", "r", "s">>)
    @@ ("ann" :> <<"a", "n", "n">>)
    @@ ("io" :> <<"i", "o">>)
    @@ ("com" :> <<"c", "o", "m">>)

\* the string made of the given pieces (words of Spelling, or single characters)
RECURSIVE Chars(_)
Chars(pieces) ==
    IF pieces = <<>> THEN <<>>
    ELSE (IF pieces[1] \in DOMAIN Spelling THEN Spelling[pieces[1]] ELSE <<pieces[1]>>)
         \o Chars(Tail(pieces))

DigitSeq == <<"0", "1", "2", "3", "4", "5", "6", "7", "8", "9">>
LowerSeq == <<"a", "b", "c", "d", "e", "f", "g", "h", "i", "j", "k", "l", "m",
              "n", "o", "p", "q", "r", "s", "t", "u", "v", "w", "x", "y", "z">>
UpperSeq == <<"A", "B", "C", "D", "E", "F", "G", "H", "I", "J", "K", "L", "M",
              "N", "O", "P", "Q", "R", "S", "T", "U", "V", "W", "X", "Y", "Z">>
Range(f) == {f[i] : i \in DOMAIN f}
Digits == Range(DigitSeq)
Lowers == Range(LowerSeq)
Uppers == Range(UpperSeq)
IsDigit(c) == c \in Digits
IsLower(c) == c \in Lowers
IsUpper(c) == c \in Uppers
IsSpace(c) == c = " "
\* \w of the regular expressions
IsWordChar(c) == IsDigit(c) \/ IsLower(c) \/ IsUpper(c) \/ c = "_"
DigitValue(c) == (CHOOSE i \in 1..10 : DigitSeq[i] = c) - 1

\* str.lower
lower(s) ==
    [i \in 1..Len(s) |->
        IF IsUpper(s[i]) THEN LowerSeq[CHOOSE j \in 1..26 : UpperSeq[j] = s[i]] ELSE s[i]]

\* str.strip
strip(s) ==
    LET keep == {i \in 1..Len(s) : ~IsSpace(s[i])}
    IN IF keep = {} THEN <<>>
       ELSE SubSeq(s, CHOOSE i \in keep : \A j \in keep : i <= j,
                      CHOOSE i \in keep : \A j \in keep : i >= j)

(***************************************************************************)
(* Values: None, a float m / 10^e, an int, or a string                     *)
(***************************************************************************)
None == [k |-> "none", m |-> 0, e |-> 0, s |-> <<>>]
PyInt(x) == [k |-> "int", m |-> x, e |-> 0, s |-> <<>>]
Text(x) == [k |-> "str", m |-> 0, e |-> 0, s |-> x]

RECURSIVE Float(_, _)
Float(x, d) ==
    IF d > 0 /\ x % 10 = 0 THEN Float(x \div 10, d - 1)
    ELSE [k |-> "float", m |-> x, e |-> d, s |-> <<>>]

RECURSIVE Pow10(_)
Pow10(d) == IF d = 0 THEN 1 ELSE 10 * Pow10(d - 1)

\* int(x) of a float: truncation toward zero
py_int(v) ==
    IF v.m < 0 THEN PyInt(-((-v.m) \div Pow10(v.e))) ELSE PyInt(v.m \div Pow10(v.e))

float_times(v, x) == Float(v.m * x, v.e)

\* the number of digits of s from position i on
RECURSIVE digit_run(_, _)
digit_run(s, i) ==
    IF i <= Len(s) /\ IsDigit(s[i]) THEN 1 + digit_run(s, i + 1) ELSE 0

\* the value of the n digits of s from position i on
RECURSIVE digits_value(_, _, _)
digits_value(s, i, n) ==
    IF n = 0 THEN 0
    ELSE 10 * digits_value(s, i, n - 1) + DigitValue(s[i + n - 1])

\* where the digits of [+-]?\d+ start when the pattern is tried at position i
after_sign(s, i) == IF i <= Len(s) /\ s[i] \in {"+", "-"} THEN i + 1 ELSE i

\* the digits of (\.\d+)? when the integer part ends before position dot
fraction_run(s, dot) ==
    IF dot <= Len(s) /\ s[dot] = "." THEN digit_run(s, dot + 1) ELSE 0

number_end_from(p, n1, n2) ==
    IF n1 = 0 THEN 0
    ELSE IF n2 > 0 THEN p + n1 + n2 ELSE p + n1 - 1

\* [+-]?\d+(\.\d+)? matched at position i: the position of its last
\* character, 0 when it does not match there
number_end(s, i) ==
    number_end_from(after_sign(s, i), digit_run(s, after_sign(s, i)),
                    fraction_run(s, after_sign(s, i) + digit_run(s, after_sign(s, i))))

number_value_from(s, negative, p, n1, n2) ==
    Float((IF negative THEN -1 ELSE 1)
             * (digits_value(s, p, n1) * Pow10(n2)
                + (IF n2 > 0 THEN digits_value(s, p + n1 + 1, n2) ELSE 0)),
          n2)

\* float(m.group(1)) of the text [+-]?\d+(\.\d+)? matched at position i
number_value(s, i) ==
    number_value_from(s, s[i] = "-", after_sign(s, i), digit_run(s, after_sign(s, i)),
                      fraction_run(s, after_sign(s, i) + digit_run(s, after_sign(s, i))))

\* the alternatives of \b(dollars?|usd|aud|gbp|eur)\b in the order the regex tries them
currency_words ==
    <<Spelling["dollars"], Spelling["dollar"], Spelling["usd"],
      Spelling["aud"], Spelling["gbp"], Spelling["eur"]>>

\* \b before position i of s
word_boundary(s, i) ==
    LET before == i - 1 >= 1 /\ i - 1 <= Len(s) /\ IsWordChar(s[i - 1])
        after == i >= 1 /\ i <= Len(s) /\ IsWordChar(s[i])
    IN before # after

starts_at(s, i, w) == i + Len(w) - 1 <= Len(s) /\ SubSeq(s, i, i + Len(w) - 1) = w

\* the length of the currency word matched at position i, 0 when none is
currency_at(s, i) ==
    LET hits == {j \in 1..Len(currency_words) :
                    /\ word_boundary(s, i)
                    /\ starts_at(s, i, currency_words[j])
                    /\ word_boundary(s, i + Len(currency_words[j]))}
    IN IF hits = {} THEN 0
       ELSE Len(currency_words[CHOOSE j \in hits : \A h \in hits : j <= h])

\* re.sub(r"\b(dollars?|usd|aud|gbp|eur)\b", "", s)
RECURSIVE remove_currency(_, _)
remove_currency(s, i) ==
    IF i > Len(s) THEN <<>>
    ELSE IF currency_at(s, i) > 0 THEN remove_currency(s, i + currency_at(s, i))
    ELSE <<s[i]>> \o remove_currency(s, i + 1)

\* re.split(r"[\s-]+", s)
RECURSIVE split_words(_, _, _)
split_words(s, i, cur) ==
    IF i > Len(s) THEN <<cur>>
    ELSE IF IsSpace(s[i]) \/ s[i] = "-"
         THEN IF i > 1 /\ (IsSpace(s[i - 1]) \/ s[i - 1] = "-")
              THEN split_words(s, i + 1, cur)
              ELSE <<cur>> \o split_words(s, i + 1, <<>>)
    ELSE split_words(s, i + 1, Append(cur, s[i]))

units ==
    (Spelling["zero"] :> 0)
    @@ (Spelling["one"] :> 1)
    @@ (Spelling["two"] :> 2)
    @@ (Spelling["three"] :> 3)
    @@ (Spelling["four"] :> 4)
    @@ (Spelling["five"] :> 5)
    @@ (Spelling["six"] :> 6)
    @@ (Spelling["seven"] :> 7)
    @@ (Spelling["eight"] :> 8)
    @@ (Spelling["nine"] :> 9)
    @@ (Spelling["ten"] :> 10)
    @@ (Spelling["eleven"] :> 11)
    @@ (Spelling["twelve"] :> 12)
    @@ (Spelling["thirteen"] :> 13)
    @@ (Spelling["fourteen"] :> 14)
    @@ (Spelling["fifteen"] :> 15)
    @@ (Spelling["sixteen"] :> 16)
    @@ (Spelling["seventeen"] :> 17)
    @@ (Spelling["eighteen"] :> 18)
    @@ (Spelling["nineteen"] :> 19)

tens ==
    (Spelling["twenty"] :> 20)
    @@ (Spelling["thirty"] :> 30)
    @@ (Spelling["forty"] :> 40)
    @@ (Spelling["fifty"] :> 50)
    @@ (Spelling["sixty"] :> 60)
    @@ (Spelling["seventy"] :> 70)
    @@ (Spelling["eighty"] :> 80)
    @@ (Spelling["ninety"] :> 90)

scales ==
    (Spelling["hundred"] :> 100)
    @@ (Spelling["thousand"] :> 1000)
    @@ (Spelling["million"] :> 1000000)
    @@ (Spelling["billion"] :> 1000000000)

\* the loop with an unknown token skipped instead of ending the parse
RECURSIVE words_total_skips_unknown(_, _, _, _)
words_total_skips_unknown(words, i, current, total) ==
    IF i > Len(words) THEN total + current
    ELSE LET w == words[i]
         IN IF w \in DOMAIN units
            THEN words_total_skips_unknown(words, i + 1, current + units[w], total)
            ELSE IF w \in DOMAIN tens
            THEN words_total_skips_unknown(words, i + 1, current + tens[w], total)
            ELSE IF w \in DOMAIN scales
            THEN words_total_skips_unknown(words, i + 1, 0,
                                           total + (IF current = 0 THEN 1 ELSE current) * scales[w])
            ELSE words_total_skips_unknown(words, i + 1, current, total)

\* the loop over the words: the total, or -1 for the return None of an unknown token
RECURSIVE words_total(_, _, _, _)
words_total(words, i, current, total) ==
    IF i > Len(words) THEN total + current
    ELSE LET w == words[i]
         IN IF w \in DOMAIN units THEN words_total(words, i + 1, current + units[w], total)
            ELSE IF w \in DOMAIN tens THEN words_total(words, i + 1, current + tens[w], total)
            ELSE IF w = Spelling["and"] THEN words_total(words, i + 1, current, total)
            ELSE IF w \in DOMAIN scales
                 THEN words_total(words, i + 1, 0,
                                  total + (IF current = 0 THEN 1 ELSE current) * scales[w])
            ELSE -1

\* (\s*[kKmM])?$ on what follows the number: the suffix letter, "" when
\* nothing follows, "no match" otherwise
suffix_of(rest) ==
    IF rest = <<>> THEN ""
    ELSE IF /\ rest[Len(rest)] \in {"k", "K", "m", "M"}
            /\ \A j \in 1..(Len(rest) - 1) : IsSpace(rest[j])
         THEN rest[Len(rest)]
    ELSE "no match"

suffix_after(s0, e) ==
    IF e = 0 THEN "no match" ELSE suffix_of(SubSeq(s0, e + 1, Len(s0)))

\* m = re.match(r"^([+-]?\d+(\.\d+)?)(\s*[kKmM])?$", s0): the suffix letter,
\* "" when the number stands alone, "no match" otherwise
shorthand_suffix(s0) == suffix_after(s0, number_end(s0, 1))

\* m2 = re.search(r"([+-]?\d+(\.\d+)?)", s0): where the first match starts, 0 when none
first_number(s0) ==
    IF \E i \in 1..Len(s0) : number_end(s0, i) > 0
    THEN CHOOSE i \in 1..Len(s0) :
            number_end(s0, i) > 0 /\ \A j \in 1..(i - 1) : number_end(s0, j) = 0
    ELSE 0

\* return float(total) if total != 0 else None (-1: an unknown token)
from_words(total) == IF total = -1 \/ total = 0 THEN None ELSE Float(total, 0)

\* the fallback to the first embedded number, then to the words
from_search(s0, at) ==
    IF at > 0 THEN number_value(s0, at)
    ELSE from_words(words_total(split_words(s0, 1, <<>>), 1, 0, 0))

\* the k / m shorthand when the whole text is a number
from_shorthand(s0, suffix) ==
    IF suffix \in {"k", "K"} THEN float_times(number_value(s0, 1), 1000)
    ELSE IF suffix \in {"m", "M"} THEN float_times(number_value(s0, 1), 1000000)
    ELSE IF suffix = "" THEN number_value(s0, 1)
    ELSE from_search(s0, first_number(s0))

\* the text after the quick cleanup
parse_number(s0) == from_shorthand(s0, shorthand_suffix(s0))

quick_cleanup(s0) ==
    IF s0 = <<>> THEN None
    ELSE parse_number(strip(remove_currency(SelectSeq(s0, LAMBDA c : c # ","), 1)))

\* text_to_number(s) for s None or a string
text_to_number(raw) ==
    IF raw.k = "none" THEN None ELSE quick_cleanup(strip(lower(raw.s)))

(***************************************************************************)
(* The normalizers.  Each is given as what it returns (ret) and the STATS  *)
(* counters it increments on the way (hits), in order.                     *)
(***************************************************************************)
Outcome(v, counters) == [ret |-> v, hits |-> counters]

\* float(t) of Python for a text of digits, "." and "-": whether it parses
float_ok_from(t, p, n1) ==
    IF p + n1 <= Len(t) /\ t[p + n1] = "."
    THEN (n1 > 0 \/ digit_run(t, p + n1 + 1) > 0)
         /\ p + n1 + digit_run(t, p + n1 + 1) = Len(t)
    ELSE n1 > 0 /\ p + n1 - 1 = Len(t)

minus_sign(t) == IF t # <<>> /\ t[1] = "-" THEN 2 ELSE 1

py_float_ok(t) == float_ok_from(t, minus_sign(t), digit_run(t, minus_sign(t)))

\* float(t) of Python for a text that parses
py_float(t) ==
    number_value_from(t, t[1] = "-", minus_sign(t), digit_run(t, minus_sign(t)),
                      digit_run(t, minus_sign(t) + digit_run(t, minus_sign(t)) + 1))

\* the return of the text branch left out: the failure is counted as well
age_from_text_falls_through(n) ==
    IF n # None THEN Outcome(py_int(n), <<"age_text_parsed", "age_failed">>)
    ELSE Outcome(None, <<"age_failed">>)

age_from_text(n) ==
    IF n # None THEN Outcome(py_int(n), <<"age_text_parsed">>)
    ELSE Outcome(None, <<"age_failed">>)

age_from(s, t) ==
    IF py_float_ok(t) THEN Outcome(py_int(py_float(t)), <<"age_numeric_parsed">>)
    ELSE age_from_text(text_to_number(Text(s)))

age_of(s) == age_from(s, SelectSeq(s, LAMBDA c : IsDigit(c) \/ c = "." \/ c = "-"))

clean_age(age) ==
    IF age.k = "none" THEN Outcome(None, <<"age_failed">>) ELSE age_of(strip(age.s))

salary_from_text(n) ==
    IF n # None THEN Outcome(n, <<"salary_text_parsed">>)
    ELSE Outcome(None, <<"salary_failed">>)

\* m = re.match(r"^([+-]?\d+(\.\d+)?)([kKmM])?$", s_digits) and what follows it
salary_from(s, s_digits, e) ==
    IF e > 0 /\ e = Len(s_digits)
    THEN Outcome(number_value(s_digits, 1), <<"salary_numeric_parsed">>)
    ELSE IF e > 0 /\ e + 1 = Len(s_digits) /\ s_digits[e + 1] \in {"k", "K"}
    THEN Outcome(float_times(number_value(s_digits, 1), 1000), <<"salary_numeric_parsed">>)
    ELSE IF e > 0 /\ e + 1 = Len(s_digits) /\ s_digits[e + 1] \in {"m", "M"}
    THEN Outcome(float_times(number_value(s_digits, 1), 1000000), <<"salary_numeric_parsed">>)
    ELSE salary_from_text(text_to_number(Text(s)))

salary_digits(s, s_digits) == salary_from(s, s_digits, number_end(s_digits, 1))

salary_of(s) ==
    salary_digits(s, SelectSeq(s, LAMBDA c :
                                IsDigit(c) \/ c \in {".", "-", "k", "K", "m", "M"}))

clean_salary(salary) ==
    IF salary.k = "none" THEN Outcome(None, <<"salary_failed">>)
    ELSE salary_of(strip(salary.s))

\* f"({d[:3]}) {d[3:6]}-{d[6:]}"
us_format(d) ==
    <<"(">> \o SubSeq(d, 1, 3) \o <<")", " ">> \o SubSeq(d, 4, 6) \o <<"-">>
        \o SubSeq(d, 7, Len(d))

\* the international fallback taken for more than 11 digits only
phone_from_above_eleven(digits_only) ==
    IF Len(digits_only) = 10
    THEN Outcome(Text(us_format(digits_only)), <<"phone_parsed_us">>)
    ELSE IF Len(digits_only) = 11 /\ digits_only[1] = "1"
    THEN Outcome(Text(us_format(Tail(digits_only))), <<"phone_parsed_us">>)
    ELSE IF Len(digits_only) > 11
    THEN Outcome(Text(<<"+">> \o digits_only), <<"phone_parsed_intl">>)
    ELSE Outcome(None, <<"phone_failed">>)

phone_from(digits_only) ==
    IF Len(digits_only) = 10
    THEN Outcome(Text(us_format(digits_only)), <<"phone_parsed_us">>)
    ELSE IF Len(digits_only) = 11 /\ digits_only[1] = "1"
    THEN Outcome(Text(us_format(Tail(digits_only))), <<"phone_parsed_us">>)
    ELSE IF Len(digits_only) > 10
    THEN Outcome(Text(<<"+">> \o digits_only), <<"phone_parsed_intl">>)
    ELSE Outcome(None, <<"phone_failed">>)

clean_phone(phone) ==
    IF phone.k = "none" THEN Outcome(None, <<"phone_failed">>)
    ELSE phone_from(SelectSeq(phone.s, IsDigit))

(***************************************************************************)
(* pd.to_datetime(val, errors="coerce", dayfirst=...) on the date texts of *)
(* the inputs: the day of 2024 it reads, NaT for a text that is no date.   *)
(***************************************************************************)
IsoText == Chars(<<"2", "0", "2", "4", "-", "0", "1", "-", "0", "5">>)
SlashText == Chars(<<"0", "3", "/", "0", "4", "/", "2", "0", "2", "4">>)
DayFirstText == Chars(<<"1", "3", "/", "0", "4", "/", "2", "0", "2", "4">>)
NoDateText == Chars(<<"x", "y", "z">>)

parse_date(val, dayfirst) ==
    IF val.s = IsoText THEN 5
    ELSE IF val.s = SlashText THEN (IF dayfirst THEN 94 ELSE 64)
    ELSE IF val.s = DayFirstText THEN 104
    ELSE NaT

\* dt.strftime("%Y-%m-%d")
format_date(d) ==
    CASE d = 5 -> Chars(<<"2", "0", "2", "4", "-", "0", "1", "-", "0", "5">>)
      [] d = 64 -> Chars(<<"2", "0", "2", "4", "-", "0", "3", "-", "0", "4">>)
      [] d = 94 -> Chars(<<"2", "0", "2", "4", "-", "0", "4", "-", "0", "3">>)
      [] d = 104 -> Chars(<<"2", "0", "2", "4", "-", "0", "4", "-", "1", "3">>)

\* one round of the loop over dayfirst: dt of this round, the result of the next
date_round(dt, otherwise) ==
    IF dt # NaT THEN Outcome(Text(format_date(dt)), <<"date_parsed">>) ELSE otherwise

clean_date(val) ==
    IF val.k = "none" THEN Outcome(None, <<"date_failed">>)
    ELSE date_round(parse_date(val, FALSE),
                    date_round(parse_date(val, TRUE), Outcome(None, <<"date_failed">>)))

\* re.match(r"^[a-z0-9._%+-]+@[a-z0-9.-]+\.[a-z]{2,}$", e)
email_matches(e) ==
    \E a \in 2..Len(e) : \E d \in (a + 2)..(Len(e) - 2) :
        /\ e[a] = "@"
        /\ \A i \in 1..(a - 1) :
              IsLower(e[i]) \/ IsDigit(e[i]) \/ e[i] \in {".", "_", "%", "+", "-"}
        /\ \A i \in (a + 1)..(d - 1) :
              IsLower(e[i]) \/ IsDigit(e[i]) \/ e[i] \in {".", "-"}
        /\ e[d] = "."
        /\ \A i \in (d + 1)..Len(e) : IsLower(e[i])

email_from(e) ==
    IF email_matches(e) THEN Outcome(Text(e), <<>>)
    ELSE Outcome(None, <<"invalid_emails_removed">>)

clean_email(email) ==
    IF email.k = "none" THEN Outcome(None, <<>>) ELSE email_from(lower(strip(email.s)))


(***************************************************************************)
(* The state machines                                                      *)
(***************************************************************************)
MergeIdle ==
    /\ q1 = <<>> /\ q2 = <<>> /\ pc = "start" /\ written = FALSE
    /\ merged_df = <<>> /\ conflicts = <<>> /\ totals = NoTotals

\* STATS as the module defines it
ZeroStats ==
    [c \in {"rows_before", "rows_after", "salary_numeric_parsed", "salary_text_parsed",
            "salary_failed", "age_numeric_parsed", "age_text_parsed", "age_failed",
            "phone_parsed_us", "phone_parsed_intl", "phone_failed", "date_parsed",
            "date_failed", "invalid_emails_removed"} |-> 0]

Fields == {"age", "salary", "phone", "date", "email"}
NoCall == [fn |-> "none", raw |-> None, ret |-> None, hits |-> <<>>]
Applying(fn, raw) == [fn |-> fn, raw |-> raw, ret |-> text_to_number(raw), hits |-> <<>>]
Calling(fn, raw, out) == [fn |-> fn, raw |-> raw, ret |-> out.ret, hits |-> out.hits]
NoArg == [words |-> <<>>, sep |-> " "]

CleanIdle ==
    /\ STATS = ZeroStats /\ calls = [f \in Fields |-> 0] /\ prev = ZeroStats /\ call = NoCall

MergeInit ==
    /\ CleanIdle
    /\ arg = NoArg
    /\ \E len1 \in 0..MaxRows : \E len2 \in 0..(MaxRows - len1) :
          /\ q1 \in {s \in SeqsOf(InputRows, len1) : Len(s) = len1}
          /\ q2 \in {s \in SeqsOf(InputRows, len2) : Len(s) = len2}
    /\ pc = "start"
    /\ written = FALSE
    /\ merged_df = <<>>
    /\ conflicts = <<>>
    /\ totals = NoTotals

merge_customers ==
    /\ pc = "start"
    /\ LET combined == combine(q1, q2)
           res == resolve_all(combined, group_keys(combined))
       IN IF res.raised
          THEN /\ pc' = "aborted"
               /\ UNCHANGED <<written, merged_df, conflicts, totals>>
          ELSE /\ merged_df' = drop_source(res.rows)
               /\ written' = TRUE
               /\ IF res.rows = <<>>
                  THEN \* merged_df["customer_id"] of a frame without columns
                       /\ pc' = "aborted"
                       /\ UNCHANGED <<conflicts, totals>>
                  ELSE /\ pc' = "done"
                       /\ conflicts' = res.logged
                       /\ totals' = purchase_totals(combined, drop_source(res.rows))
    /\ UNCHANGED <<q1, q2, STATS, calls, prev, call, arg>>

MergeNext == merge_customers

MergeSpec == MergeInit /\ [][MergeNext]_vars

(***************************************************************************)
(* Calls of the normalizers on STATS                                       *)
(***************************************************************************)
MaxCalls == 3
MaxDigits == 13

\* STATS[c] += 1 for each counter of hits, in order
RECURSIVE bump(_, _)
bump(stats, hits) ==
    IF hits = <<>> THEN stats
    ELSE bump([stats EXCEPT ![hits[1]] = @ + 1], Tail(hits))

AgeInputs ==
    {None} \cup {Text(Chars(p)) : p \in {
        <<"2", "5">>, <<"-", "5">>, <<"2", "5", ".", "7">>, <<"twenty", " ", "five">>,
        <<"forty", "-", "two">>, <<"xyz">>, <<"1", "-", "2">>, <<"3", "0", " ", "years">>}}

SalaryInputs ==
    {None} \cup {Text(Chars(p)) : p \in {
        <<"6", "0", "0", "0", "0">>, <<"$", "6", "0", "k">>, <<"2", ".", "5", "M">>,
        <<"sixty", " ", "thousand">>, <<"6", "0", "k", " ", "usd">>, <<"xyz">>,
        <<"$", "1", ",", "2", "0", "0", ".", "5", "0">>, <<"-", "5", "k">>,
        <<"approx", " ", "7", "5">>, <<"6", "0", " ", "k", "g">>}}

\* a text with n digits, the first of them lead, written in the given style
phone_piece(digit, n, style) ==
    IF style = "dashed" /\ n > 1 /\ n % 3 = 1 THEN <<"-", digit>>
    ELSE IF style = "plus" /\ n = 1 THEN <<"+", digit, " ">>
    ELSE <<digit>>

RECURSIVE phone_text(_, _, _)
phone_text(lead, n, style) ==
    IF n = 0 THEN <<>>
    ELSE phone_text(lead, n - 1, style)
         \o phone_piece(IF n = 1 THEN lead ELSE DigitSeq[(n % 10) + 1], n, style)

PhoneInputs ==
    {None} \cup {Text(phone_text(lead, n, style)) :
                    lead \in {"1", "5"}, n \in 0..MaxDigits, style \in {"plain", "dashed", "plus"}}

DateInputs == {None, Text(IsoText), Text(SlashText), Text(DayFirstText), Text(NoDateText)}

EmailInputs ==
    {None} \cup {Text(Chars(p)) : p \in {
        <<"ann", "@", "x", ".", "io">>, <<" ", "A", "n", "n", "@", "X", ".", "com">>,
        <<"ann", "@", "x">>, <<"ann", "@", "x", ".", "i", "0">>, <<"xyz">>}}

TotalCalls ==
    calls["age"] + calls["salary"] + calls["phone"] + calls["date"] + calls["email"]

call_clean_age ==
    \E raw \in AgeInputs :
        /\ TotalCalls < MaxCalls
        /\ call' = Calling("clean_age", raw, clean_age(raw))
        /\ STATS' = bump(STATS, call'.hits)
        /\ prev' = STATS
        /\ calls' = [calls EXCEPT !["age"] = @ + 1]
        /\ UNCHANGED <<q1, q2, pc, written, merged_df, conflicts, totals, arg>>

call_clean_salary ==
    \E raw \in SalaryInputs :
        /\ TotalCalls < MaxCalls
        /\ call' = Calling("clean_salary", raw, clean_salary(raw))
        /\ STATS' = bump(STATS, call'.hits)
        /\ prev' = STATS
        /\ calls' = [calls EXCEPT !["salary"] = @ + 1]
        /\ UNCHANGED <<q1, q2, pc, written, merged_df, conflicts, totals, arg>>

call_clean_phone ==
    \E raw \in PhoneInputs :
        /\ TotalCalls < MaxCalls
        /\ call' = Calling("clean_phone", raw, clean_phone(raw))
        /\ STATS' = bump(STATS, call'.hits)
        /\ prev' = STATS
        /\ calls' = [calls EXCEPT !["phone"] = @ + 1]
        /\ UNCHANGED <<q1, q2, pc, written, merged_df, conflicts, totals, arg>>

call_clean_date ==
    \E raw \in DateInputs :
        /\ TotalCalls < MaxCalls
        /\ call' = Calling("clean_date", raw, clean_date(raw))
        /\ STATS' = bump(STATS, call'.hits)
        /\ prev' = STATS
        /\ calls' = [calls EXCEPT !["date"] = @ + 1]
        /\ UNCHANGED <<q1, q2, pc, written, merged_df, conflicts, totals, arg>>

call_clean_email ==
    \E raw \in EmailInputs :
        /\ TotalCalls < MaxCalls
        /\ call' = Calling("clean_email", raw, clean_email(raw))
        /\ STATS' = bump(STATS, call'.hits)
        /\ prev' = STATS
        /\ calls' = [calls EXCEPT !["email"] = @ + 1]
        /\ UNCHANGED <<q1, q2, pc, written, merged_df, conflicts, totals, arg>>

CleanInit == MergeIdle /\ CleanIdle /\ arg = NoArg

CleanNext ==
    \/ call_clean_age
    \/ call_clean_salary
    \/ call_clean_phone
    \/ call_clean_date
    \/ call_clean_email

CleanSpec == CleanInit /\ [][CleanNext]_vars

(***************************************************************************)
(* text_to_number on phrases of number words                               *)
(***************************************************************************)
MaxWords == 4

PhraseWords ==
    {"zero", "one", "five", "twelve", "twenty", "forty", "hundred", "thousand",
     "million", "and"}

\* the words of a phrase with the separator between them
RECURSIVE phrase_pieces(_, _)
phrase_pieces(words, sep) ==
    IF Len(words) <= 1 THEN words
    ELSE <<words[1], sep>> \o phrase_pieces(Tail(words), sep)

WordsInit ==
    /\ MergeIdle
    /\ CleanIdle
    /\ arg \in [words : SeqsOf(PhraseWords, MaxWords) \ {<<>>}, sep : {" ", "-"}]

apply_text_to_number ==
    /\ call.fn = "none"
    /\ call' = Applying("text_to_number", Text(Chars(phrase_pieces(arg.words, arg.sep))))
    /\ UNCHANGED <<q1, q2, pc, written, merged_df, conflicts, totals, STATS, calls, prev, arg>>

WordsNext == apply_text_to_number

WordsSpec == WordsInit /\ [][WordsNext]_vars

(***************************************************************************)
(* text_to_number on texts of known words, unknown words, currency words   *)
(* and a digit                                                             *)
(***************************************************************************)
MaxTokens == 3

TokenWords == {"one", "twenty", "hundred", "and", "xyz", "unit", "dollars", "usd", "7"}

TokensInit ==
    /\ MergeIdle
    /\ CleanIdle
    /\ arg \in [words : SeqsOf(TokenWords, MaxTokens) \ {<<>>}, sep : {" ", "-"}]

TokensSpec == TokensInit /\ [][WordsNext]_vars


(***************************************************************************)
(* Properties of merge_customers                                           *)
(***************************************************************************)
IdsOf(rows) == {rows[i].customer_id : i \in 1..Len(rows)}
RowsFor(rows, cid) == SelectSeq(rows, LAMBDA r : r.customer_id = cid)
InBoth == IdsOf(q1) \cap IdsOf(q2)
InOneOnly == (IdsOf(q1) \cup IdsOf(q2)) \ InBoth
Q1Row(cid) == RowsFor(q1, cid)[1]
Q2Row(cid) == RowsFor(q2, cid)[1]
OutRow(cid) == RowsFor(merged_df, cid)[1]
MergeReturned == pc # "start"
\* each source holds at most one row per customer_id
OneRowPerId ==
    \A cid \in CustomerIds : Len(RowsFor(q1, cid)) <= 1 /\ Len(RowsFor(q2, cid)) <= 1

\* C1: once merge_customers has run, the output file holds exactly one row for
\* every customer_id of Q1 or Q2: none is missing, none occurs twice.
C1_OneRowPerCustomer ==
    MergeReturned =>
        /\ written
        /\ \A cid \in IdsOf(q1) \cup IdsOf(q2) : Len(RowsFor(merged_df, cid)) = 1
        /\ IdsOf(merged_df) \subseteq IdsOf(q1) \cup IdsOf(q2)

\* C2: a customer_id whose rows all come from one source gets an output row
\* equal to a row of that source, every field unchanged, and no conflict is
\* logged for it.
C2_SingleSourceUnchanged ==
    MergeReturned =>
        \A cid \in InOneOnly :
            /\ written
            /\ Len(RowsFor(merged_df, cid)) = 1
            /\ \E i \in 1..Len(q1 \o q2) : (q1 \o q2)[i] = OutRow(cid)
            /\ \A j \in 1..Len(conflicts) : conflicts[j][1] # cid

\* C3 (as stated): with Q1 and Q2 holding the same rows, one per customer_id,
\* no conflict is logged and the output rows are the input rows.
C3_IdenticalBatchesUnchanged ==
    (pc = "done" /\ q1 = q2 /\ OneRowPerId) =>
        /\ conflicts = <<>>
        /\ \A cid \in IdsOf(q1) : OutRow(cid) = Q1Row(cid)

Doubled(c) == IF c.k = "num" THEN Num(2 * c.n) ELSE c
IsoDate(c) == IF c \in {Str(d) : d \in DateStrings} THEN strftime(to_datetime(c)) ELSE c

\* C3 (amended): with Q1 and Q2 holding the same rows, one per customer_id, no
\* conflict is logged and each output row equals its input row except that a
\* numeric total_purchases is doubled and a registration_date that parses is
\* written as YYYY-MM-DD.
C3_IdenticalBatchesSummed ==
    (pc = "done" /\ q1 = q2 /\ OneRowPerId) =>
        /\ conflicts = <<>>
        /\ IdsOf(merged_df) = IdsOf(q1)
        /\ \A cid \in IdsOf(q1) :
              /\ Len(RowsFor(merged_df, cid)) = 1
              /\ OutRow(cid) =
                    [Q1Row(cid) EXCEPT
                        !.total_purchases = Doubled(@),
                        !.registration_date = IsoDate(@)]

C3_Witness ==
    /\ pc = "done" /\ q1 = q2 /\ OneRowPerId
    /\ \E cid \in IdsOf(q1) :
          Q1Row(cid).total_purchases = Num(1) /\ OutRow(cid).total_purchases = Num(2)

\* C4: for a customer_id in both sources the output total_purchases is the sum
\* when both values are numeric and the Q2 row's raw value when either is null
\* or unparseable text.
C4_PurchasesSumOrQ2 ==
    (pc = "done" /\ OneRowPerId) =>
        \A cid \in InBoth :
            OutRow(cid).total_purchases =
                IF Q1Row(cid).total_purchases.k = "num" /\ Q2Row(cid).total_purchases.k = "num"
                THEN Num(Q1Row(cid).total_purchases.n + Q2Row(cid).total_purchases.n)
                ELSE Q2Row(cid).total_purchases

NullAsZero(c) == IF c.k = "num" THEN c.n ELSE 0

RECURSIVE SumOver(_, _)
SumOver(S, f) ==
    IF S = {} THEN 0
    ELSE LET x == CHOOSE y \in S : TRUE IN f[x] + SumOver(S \ {x}, f)

AllPurchasesNumericOrNull ==
    \A i \in 1..Len(q1 \o q2) : (q1 \o q2)[i].total_purchases.k # "str"

\* C5: the output's purchases add up to the purchases of the ids in one source
\* only plus, for each id in both, the Q1 value plus the Q2 value (null as 0).
C5_GlobalPurchaseSum ==
    (pc = "done" /\ OneRowPerId /\ AllPurchasesNumericOrNull) =>
        LET single == [cid \in InOneOnly |->
                NullAsZero((RowsFor(q1 \o q2, cid)[1]).total_purchases)]
            both == [cid \in InBoth |->
                NullAsZero(Q1Row(cid).total_purchases) + NullAsZero(Q2Row(cid).total_purchases)]
            out == [cid \in IdsOf(merged_df) |-> NullAsZero(OutRow(cid).total_purchases)]
        IN SumOver(IdsOf(merged_df), out)
               = SumOver(InOneOnly, single) + SumOver(InBoth, both)

Parses(c) == c \in {Str(d) : d \in DateStrings}

\* C6: for a customer_id in both sources the output registration_date is the
\* earlier date when both parse, and the Q2 row's value when either does not.
C6_EarlierDateOrQ2 ==
    (pc = "done" /\ OneRowPerId) =>
        \A cid \in InBoth :
            LET r1 == Q1Row(cid).registration_date
                r2 == Q2Row(cid).registration_date
            IN OutRow(cid).registration_date =
                  IF Parses(r1) /\ Parses(r2)
                  THEN (IF to_datetime(r1) <= to_datetime(r2)
                        THEN strftime(to_datetime(r1)) ELSE strftime(to_datetime(r2)))
                  ELSE r2

\* the (customer_id, field) pairs whose Q1 and Q2 values disagree
Disagreements ==
    {p \in InBoth \X OtherColumns :
        /\ Cell(Q1Row(p[1]), p[2]).k # "nan"
        /\ Cell(Q2Row(p[1]), p[2]).k # "nan"
        /\ Cell(Q1Row(p[1]), p[2]) # Cell(Q2Row(p[1]), p[2])}

\* C7: after the merge the conflicts are exactly the disagreements: one record
\* (id, field, Q1 value, Q2 value) per pair of an id in both sources and a
\* field other than customer_id, total_purchases, registration_date and source
\* whose two values are non-null and unequal; the output keeps the Q2 value.
C7_ConflictsAreDisagreements ==
    pc = "done" =>
        /\ Len(conflicts) = Cardinality(Disagreements)
        /\ \A p \in Disagreements :
              /\ Cardinality({j \in 1..Len(conflicts) :
                    conflicts[j][1] = p[1] /\ conflicts[j][2] = p[2]}) = 1
              /\ \E j \in 1..Len(conflicts) :
                    conflicts[j] = <<p[1], p[2], Cell(Q1Row(p[1]), p[2]), Cell(Q2Row(p[1]), p[2])>>
              /\ Cell(OutRow(p[1]), p[2]) = Cell(Q2Row(p[1]), p[2])
        /\ \A j \in 1..Len(conflicts) : <<conflicts[j][1], conflicts[j][2]>> \in Disagreements

C7_Witness ==
    /\ pc = "done"
    /\ Len(conflicts) >= 1
    /\ \E cid \in InBoth : Q1Row(cid).name = NaN /\ Q2Row(cid).name # NaN

(***************************************************************************)
(* Properties of the normalizers                                           *)
(***************************************************************************)
DigitsOf(raw) == SelectSeq(raw.s, LAMBDA c : c \in Digits)
\* (DDD) DDD-DDDD of ten digits
UsNumber(d) ==
    Text(<<"(", d[1], d[2], d[3], ")", " ", d[4], d[5], d[6], "-", d[7], d[8], d[9], d[10]>>)
PhoneCalled == call.fn = "clean_phone" /\ call.raw # None

\* C8 (as stated): clean_phone returns (DDD) DDD-DDDD for 10 digits and for 11
\* digits with a leading 1 (on the last 10), '+' and the digits for more than 11
\* digits, and null for every other digit count.
C8_PhoneByDigitCount ==
    PhoneCalled =>
        LET d == DigitsOf(call.raw)
        IN call.ret =
              IF Len(d) = 10 THEN UsNumber(d)
              ELSE IF Len(d) = 11 /\ d[1] = "1" THEN UsNumber(Tail(d))
              ELSE IF Len(d) > 11 THEN Text(<<"+">> \o d)
              ELSE None

\* C8 (amended): clean_phone returns (DDD) DDD-DDDD for 10 digits and for 11
\* digits with a leading 1 (on the last 10), '+' and the digits for 11 digits
\* that do not start with 1 and for more than 11 digits, and null for fewer
\* than 10 digits.
C8_PhoneIntlFromEleven ==
    PhoneCalled =>
        LET d == DigitsOf(call.raw)
        IN call.ret =
              IF Len(d) = 10 THEN UsNumber(d)
              ELSE IF Len(d) = 11 /\ d[1] = "1" THEN UsNumber(Tail(d))
              ELSE IF Len(d) >= 11 THEN Text(<<"+">> \o d)
              ELSE None

C8_Witness ==
    /\ PhoneCalled
    /\ Len(DigitsOf(call.raw)) = 11
    /\ DigitsOf(call.raw)[1] = "5"
    /\ call.ret = Text(<<"+">> \o DigitsOf(call.raw))

(***************************************************************************)
(* The number an English cardinal phrase denotes, -1 for a sequence of     *)
(* words that is no well-formed cardinal below one billion.                *)
(***************************************************************************)
UnitWord(w) == Spelling[w] \in DOMAIN units /\ units[Spelling[w]] >= 1
DigitWord(w) == UnitWord(w) /\ units[Spelling[w]] <= 9
TensWord(w) == Spelling[w] \in DOMAIN tens

BelowHundred(ws) ==
    IF Len(ws) = 1 /\ UnitWord(ws[1]) THEN units[Spelling[ws[1]]]
    ELSE IF Len(ws) = 1 /\ TensWord(ws[1]) THEN tens[Spelling[ws[1]]]
    ELSE IF Len(ws) = 2 /\ TensWord(ws[1]) /\ DigitWord(ws[2])
         THEN tens[Spelling[ws[1]]] + units[Spelling[ws[2]]]
    ELSE -1

\* an "and" may stand before the last tens and units
AfterAnd(ws) == IF ws # <<>> /\ ws[1] = "and" THEN Tail(ws) ELSE ws

BelowThousand(ws) ==
    IF Len(ws) >= 2 /\ DigitWord(ws[1]) /\ ws[2] = "hundred"
    THEN IF Len(ws) = 2 THEN 100 * units[Spelling[ws[1]]]
         ELSE IF BelowHundred(AfterAnd(SubSeq(ws, 3, Len(ws)))) < 0 THEN -1
         ELSE 100 * units[Spelling[ws[1]]] + BelowHundred(AfterAnd(SubSeq(ws, 3, Len(ws))))
    ELSE BelowHundred(ws)

IndexOf(ws, w) ==
    IF \E i \in 1..Len(ws) : ws[i] = w
    THEN CHOOSE i \in 1..Len(ws) : ws[i] = w /\ \A j \in 1..(i - 1) : ws[j] # w
    ELSE 0

\* the last group: below one thousand, after an "and" below one hundred
LastGroup(ws, first) ==
    IF ws = <<>> THEN (IF first THEN -1 ELSE 0)
    ELSE IF ws[1] = "and" THEN (IF first THEN -1 ELSE BelowHundred(Tail(ws)))
    ELSE BelowThousand(ws)

ThousandsAndRest(ws, first) ==
    LET t == IndexOf(ws, "thousand")
    IN IF t = 0 THEN LastGroup(ws, first)
       ELSE IF BelowThousand(SubSeq(ws, 1, t - 1)) < 0
               \/ LastGroup(SubSeq(ws, t + 1, Len(ws)), FALSE) < 0 THEN -1
       ELSE 1000 * BelowThousand(SubSeq(ws, 1, t - 1))
            + LastGroup(SubSeq(ws, t + 1, Len(ws)), FALSE)

Cardinal(ws) ==
    LET m == IndexOf(ws, "million")
    IN IF ws = <<"zero">> THEN 0
       ELSE IF m = 0 THEN ThousandsAndRest(ws, TRUE)
       ELSE IF BelowThousand(SubSeq(ws, 1, m - 1)) < 0
               \/ ThousandsAndRest(SubSeq(ws, m + 1, Len(ws)), FALSE) < 0 THEN -1
       ELSE 1000000 * BelowThousand(SubSeq(ws, 1, m - 1))
            + ThousandsAndRest(SubSeq(ws, m + 1, Len(ws)), FALSE)

\* C9: text_to_number returns the number a well-formed cardinal phrase below
\* one billion denotes, its words separated by spaces or by hyphens.
C9_CardinalPhraseValue ==
    (call.fn = "text_to_number" /\ Cardinal(arg.words) >= 0) =>
        call.ret = Float(Cardinal(arg.words), 0)

FieldOf(fn) ==
    CASE fn = "clean_age" -> "age"
      [] fn = "clean_salary" -> "salary"
      [] fn = "clean_phone" -> "phone"
      [] fn = "clean_date" -> "date"
      [] fn = "clean_email" -> "email"

CountersOf(field) ==
    CASE field = "age" -> {"age_numeric_parsed", "age_text_parsed", "age_failed"}
      [] field = "salary" -> {"salary_numeric_parsed", "salary_text_parsed", "salary_failed"}
      [] field = "phone" -> {"phone_parsed_us", "phone_parsed_intl", "phone_failed"}
      [] field = "date" -> {"date_parsed", "date_failed"}
      [] field = "email" -> {"invalid_emails_removed"}

RECURSIVE CounterSum(_)
CounterSum(S) ==
    IF S = {} THEN 0
    ELSE LET c == CHOOSE x \in S : TRUE IN STATS[c] + CounterSum(S \ {c})

OneOwnCounterMore ==
    \E c \in CountersOf(FieldOf(call.fn)) : STATS = [prev EXCEPT ![c] = @ + 1]

\* C10 (as stated): every call of clean_age, clean_salary, clean_phone,
\* clean_date or clean_email adds 1 to exactly one counter of its own field and
\* leaves the others alone, so each field's counters add up to its calls.
C10_OneCounterPerCall ==
    /\ call.fn # "none" => OneOwnCounterMore
    /\ \A f \in Fields : CounterSum(CountersOf(f)) = calls[f]

\* C10 (amended): every call of clean_age, clean_salary, clean_phone or
\* clean_date adds 1 to exactly one counter of its own field and leaves the
\* others alone, so each of these fields' counters add up to its calls;
\* clean_email adds 1 to invalid_emails_removed when it returns null for a
\* non-null input and changes no counter otherwise.
C10_OneCounterPerCallButEmail ==
    /\ call.fn \in {"clean_age", "clean_salary", "clean_phone", "clean_date"}
          => OneOwnCounterMore
    /\ call.fn = "clean_email" =>
          STATS = IF call.raw # None /\ call.ret = None
                  THEN [prev EXCEPT !["invalid_emails_removed"] = @ + 1]
                  ELSE prev
    /\ \A f \in Fields \ {"email"} : CounterSum(CountersOf(f)) = calls[f]
    /\ STATS["invalid_emails_removed"] <= calls["email"]

C10_Witness ==
    /\ call.fn = "clean_email" /\ call.ret # None
    /\ calls["email"] = 2 /\ STATS["invalid_emails_removed"] = 1
    /\ STATS["age_text_parsed"] = 1

(***************************************************************************)
(* Properties of clean_age, clean_salary and text_to_number                *)
(***************************************************************************)
\* C11: clean_age returns null or a non-negative integer and clean_salary
\* returns null or a non-negative number, whatever the raw input is.
C11_NonNegativeResults ==
    /\ call.fn = "clean_age" => (call.ret = None \/ (call.ret.k = "int" /\ call.ret.m >= 0))
    /\ call.fn = "clean_salary" =>
          (call.ret = None \/ (call.ret.k \in {"int", "float"} /\ call.ret.m >= 0))

\* C12: for every non-null raw string clean_salary returns what text_to_number
\* returns for it, the same value or the same null.
C12_SalaryIsTextToNumber ==
    (call.fn = "clean_salary" /\ call.raw # None) => call.ret = text_to_number(call.raw)

CurrencyWords == {"dollars", "dollar", "usd", "aud", "gbp", "eur"}
IsNumberWord(w) ==
    /\ w \in DOMAIN Spelling
    /\ \/ Spelling[w] \in (DOMAIN units \cup DOMAIN tens \cup DOMAIN scales)
       \/ w = "and"
HasDigit(ws) == \E i \in 1..Len(ws) : ws[i] \in Digits
HasUnknownToken(ws) ==
    \E i \in 1..Len(ws) : ws[i] \notin CurrencyWords /\ ~IsNumberWord(ws[i])

\* C13: for a text without a digit, text_to_number returns null as soon as one
\* of its tokens, the currency words set aside, is not a unit word, a tens
\* word, a scale word or "and": the recognised tokens around it count for
\* nothing.
C13_UnknownTokenGivesNull ==
    (call.fn = "text_to_number" /\ ~HasDigit(arg.words) /\ HasUnknownToken(arg.words)) =>
        call.ret = None

C13_Witness ==
    /\ call.fn = "text_to_number"
    /\ arg.words = <<"twenty", "xyz", "one">>
    /\ arg.sep = "-"
    /\ call.ret = None

====
